---- MODULE Spec2Model ----
(***************************************************************************)
(* State-machine model of the two Maya utilities of this repository:       *)
(*                                                                         *)
(*   threaded_headless_mayas_example.py  anim_rig_generator: one headless  *)
(*       worker process and one coordinating thread per '*_Anim' set.      *)
(*   framefit.py                         framefit_animrig and its          *)
(*       entry point framefit_animrig_current_panel_to_selected.           *)
(*                                                                         *)
(* The launcher is specified by LauncherSpec / LauncherFairSpec, the       *)
(* camera tool by FitSpec.  Each specification leaves the other            *)
(* component's variables at their idle values.                             *)
(***************************************************************************)
EXTENDS Integers, Sequences, FiniteSets, TLC

\* ------------------------------------------------------------------------
\* Bounds of the model
\* ------------------------------------------------------------------------

\* Number of '*_Anim' object sets the scene may hold (set names are 1..MaxSets).
MaxSets == 3

\* Longest list of targets passed to framefit_animrig, and largest selection.
MaxTargets == 2

\* ------------------------------------------------------------------------
\* Generic helpers
\* ------------------------------------------------------------------------

Range(s) == {s[i] : i \in DOMAIN s}

\* The subsequence of s whose elements are in S (order kept).
RECURSIVE Restrict(_, _)
Restrict(s, S) ==
    IF s = <<>> THEN <<>>
    ELSE IF Head(s) \in S THEN <<Head(s)>> \o Restrict(Tail(s), S)
         ELSE Restrict(Tail(s), S)

\* ========================================================================
\* State
\* ========================================================================

\* Batch headless export launcher (threaded_headless_mayas_example.py)
VARIABLES
    scene_sets,        \* what cmds.ls('*_Anim', type='objectSet') returns (in order)
    target_anim_sets,  \* the caller's argument: None, or a list of set names
    lpc,               \* position of the main flow of anim_rig_generator
    anim_set_data,     \* keys of the dict anim_set_data, in insertion order
    temp_file,         \* the fixed temporary scene file: "absent" | "stale" | "clone"
    processes,         \* list of (proc, target_path)
    proc,              \* per process: [state, returncode]
    threads,           \* list of started threads (thread i waits on process i)
    tstate,            \* per thread: "unstarted" | "running" | "finished"
    joined,            \* number of threads the join loop has got past
    success,           \* list shared by the threads: ('Success', target_path)
    errors,            \* list shared by the threads: (stderr, target_path)
    printed,           \* lines written by the report loops
    raised,            \* the AssertionError raised at the end, if any
    raiseCount         \* how many times the main flow has raised

\* Camera frame-fit (framefit.py)
VARIABLES
    caller,            \* "entry": the user command runs; "direct": framefit_animrig is called
    fault,             \* the host call that raises in this run ("none": the host works)
    camera_arg,        \* the entry point's argument target_camera ("": None)
    target_camera,     \* the local target_camera
    zoom_amount,       \* the argument zoom_amount, a rational
    targets,           \* the argument targets (after line 143: the cleaned list)
    hidden,            \* scene: the nodes cmds.ls(invisible=True, dag=True) returns
    fit_outcome,       \* scene: where cmds.viewFit puts the camera when it runs
    selection,         \* scene: the active selection list
    camera_pos,        \* scene: world position of the camera
    coi,               \* scene: the camera's centerOfInterest attribute
    cam_writes,        \* host calls that have written the camera so far
    undo_depth,        \* scene: number of open undo chunks
    open_calls,        \* undoInfo(openChunk=True) calls that succeeded
    close_calls,       \* undoInfo(closeChunk=True) calls that succeeded
    sel,               \* local sel of the entry point (line 219)
    sel_at_entry,      \* scene selection when the entry point was invoked
    shapes,            \* local shapes of framefit_animrig
    local_bounds,      \* every target_local_bounds computed at line 161, in order
    centre_pos,        \* local centre_pos (line 169)
    cam_read,          \* local camera_pos (line 178)
    logged,            \* tracebacks printed by the entry point's handler
    exc,               \* exception in flight or propagated to the caller ("": none)
    pc                 \* position in framefit.py

fitVars == <<caller, fault, camera_arg, target_camera, zoom_amount, targets, hidden,
             fit_outcome, selection, camera_pos, coi, cam_writes, undo_depth,
             open_calls, close_calls, sel, sel_at_entry, shapes, local_bounds,
             centre_pos, cam_read, logged, exc, pc>>

launcherVars == <<scene_sets, target_anim_sets, lpc, anim_set_data, temp_file,
                  processes, proc, threads, tstate, joined, success, errors,
                  printed, raised, raiseCount>>

vars == <<launcherVars, fitVars>>

\* ========================================================================
\* Batch headless export launcher (threaded_headless_mayas_example.py)
\*
\* The model starts where the assertion of line 46 has passed (mayapy.exe
\* exists).  AnimRigFunctions.get_target_path_from_set and
\* checkout_target_files_from_p4v are not part of the file: the first is the
\* naming policy TargetPath, the second changes none of the state below.
\* ========================================================================

\* Names of the '*_Anim' object sets a scene may hold.
AnimSets == 1 .. MaxSets

\* Exit codes of a worker: 0 is success, anything else a failure.
ExitCodes == {0, 1}

\* The argument default None (line 28).
None == [given |-> FALSE, sets |-> {}]

\* Python truthiness of the argument at line 58: None and [] are both false.
Truthy(t) == t.given /\ t.sets # {}

\* AnimRigFunctions.get_target_path_from_set (line 52): the external naming
\* policy.  A path is its sequence of components, <<directory, file name>>.
TargetPath(anim_set) == << <<"dir", anim_set % 2>>, <<"file", anim_set>> >>

\* pathlib's PurePath.name (line 135): the final path component only.
PathName(path) == <<path[Len(path)]>>

\* The stderr text captured from process p by communicate() (line 110).
StderrOf(p) == <<"stderr", p>>

\* The order cmds.ls lists the sets of S in.
Ordered(S) ==
    CHOOSE s \in [1 .. Cardinality(S) -> S] :
        /\ Range(s) = S
        /\ \A i, j \in DOMAIN s : i < j => s[i] < s[j]

\* The entry of a process that has not been spawned.
NoProc == [state |-> "none", returncode |-> 0]

\* Faulty variant of RetainedSets: the caller's subset is never applied.
RetainedSetsUnfiltered(found, wanted) == found

\* The keys anim_set_data is left with: every discovered set (lines 50-55),
\* cut down to target_anim_sets when that argument is truthy (lines 58-62).
RetainedSets(found, wanted) ==
    IF Truthy(wanted) THEN Restrict(found, wanted.sets) ELSE found

\* Lines 49-62: discover the sets and resolve each to its target path.
Discover ==
    /\ lpc = "discover"
    /\ anim_set_data' = RetainedSets(scene_sets, target_anim_sets)
    /\ lpc' = "prepare"
    /\ UNCHANGED fitVars
    /\ UNCHANGED <<scene_sets, target_anim_sets, temp_file, processes, proc, threads,
                   tstate, joined, success, errors, printed, raised, raiseCount>>

\* Lines 64-85: check the target files out, save the scene, replace any stale
\* temporary file by a clone of the scene.
Prepare ==
    /\ lpc = "prepare"
    /\ temp_file' = "clone"
    /\ lpc' = "spawn"
    /\ UNCHANGED fitVars
    /\ UNCHANGED <<scene_sets, target_anim_sets, anim_set_data, processes, proc,
                   threads, tstate, joined, success, errors, printed, raised,
                   raiseCount>>

\* Lines 89-103: one iteration of the spawn loop.  The process is named after
\* its set.
SpawnProcess ==
    /\ lpc = "spawn"
    /\ Len(processes) < Len(anim_set_data)
    /\ LET anim_set == anim_set_data[Len(processes) + 1]
           target_path == TargetPath(anim_set)
       IN /\ proc' = [proc EXCEPT ![anim_set] = [state |-> "running", returncode |-> 0]]
          /\ processes' = Append(processes, [proc |-> anim_set, target_path |-> target_path])
    /\ UNCHANGED fitVars
    /\ UNCHANGED <<scene_sets, target_anim_sets, lpc, anim_set_data, temp_file, threads,
                   tstate, joined, success, errors, printed, raised, raiseCount>>

\* Lines 89, 105-106: the spawn loop is exhausted; success and errors start empty.
SpawnDone ==
    /\ lpc = "spawn"
    /\ Len(processes) = Len(anim_set_data)
    /\ success' = <<>>
    /\ errors' = <<>>
    /\ lpc' = "threads"
    /\ UNCHANGED fitVars
    /\ UNCHANGED <<scene_sets, target_anim_sets, anim_set_data, temp_file, processes,
                   proc, threads, tstate, joined, printed, raised, raiseCount>>

\* A worker process ends, with any exit code (the headless Maya's own doing).
ProcExit(p) ==
    /\ proc[p].state = "running"
    /\ \E code \in ExitCodes :
           proc' = [proc EXCEPT ![p] = [state |-> "exited", returncode |-> code]]
    /\ UNCHANGED fitVars
    /\ UNCHANGED <<scene_sets, target_anim_sets, lpc, anim_set_data, temp_file,
                   processes, threads, tstate, joined, success, errors, printed,
                   raised, raiseCount>>

\* Lines 118-122: one iteration of the loop that starts the threads.
StartThread ==
    /\ lpc = "threads"
    /\ Len(threads) < Len(processes)
    /\ LET i == processes[Len(threads) + 1]
       IN /\ threads' = Append(threads, [_p |-> i.proc, _t |-> i.target_path])
          /\ tstate' = [tstate EXCEPT ![i.proc] = "running"]
    /\ UNCHANGED fitVars
    /\ UNCHANGED <<scene_sets, target_anim_sets, lpc, anim_set_data, temp_file,
                   processes, proc, joined, success, errors, printed, raised,
                   raiseCount>>

\* Line 118: the thread loop is exhausted.
ThreadsStarted ==
    /\ lpc = "threads"
    /\ Len(threads) = Len(processes)
    /\ lpc' = "join"
    /\ UNCHANGED fitVars
    /\ UNCHANGED <<scene_sets, target_anim_sets, anim_set_data, temp_file, processes,
                   proc, threads, tstate, joined, success, errors, printed, raised,
                   raiseCount>>

\* Faulty variant of Failed: the test of the exit code inverted.
FailedInverted(returncode) == returncode = 0

\* Line 111: the test that sends a finished process to errors.
Failed(returncode) == returncode # 0

\* Faulty variant of CommunicateReturns: a poll that does not wait for the exit.
CommunicatePolls(_p) == TRUE

\* Line 110: communicate() blocks until the process has exited.
CommunicateReturns(_p) == proc[_p].state = "exited"

\* Lines 108-114: the thread body.  communicate() returns once the process has
\* exited; list.append is atomic.
run_create_anim_threaded(_p, _t) ==
    /\ tstate[_p] = "running"
    /\ CommunicateReturns(_p)
    /\ IF Failed(proc[_p].returncode)
       THEN /\ errors' = Append(errors, <<StderrOf(_p), _t>>)
            /\ UNCHANGED success
       ELSE /\ success' = Append(success, <<"Success", _t>>)
            /\ UNCHANGED errors
    /\ tstate' = [tstate EXCEPT ![_p] = "finished"]
    /\ UNCHANGED fitVars
    /\ UNCHANGED <<scene_sets, target_anim_sets, lpc, anim_set_data, temp_file,
                   processes, proc, threads, joined, printed, raised, raiseCount>>

ThreadStep == \E i \in DOMAIN threads : run_create_anim_threaded(threads[i]._p, threads[i]._t)

\* Faulty variant of JoinReturns: a join that times out at once.
JoinTimesOut(t) == TRUE

\* Line 126: t.join() returns only once thread t has finished.
JoinReturns(t) == tstate[t._p] = "finished"

\* Lines 125-126: one iteration of the join loop, in the order of threads.
Join ==
    /\ lpc = "join"
    /\ joined < Len(threads)
    /\ JoinReturns(threads[joined + 1])
    /\ joined' = joined + 1
    /\ UNCHANGED fitVars
    /\ UNCHANGED <<scene_sets, target_anim_sets, lpc, anim_set_data, temp_file,
                   processes, proc, threads, tstate, success, errors, printed, raised,
                   raiseCount>>

\* Line 125: the join loop is exhausted.
JoinDone ==
    /\ lpc = "join"
    /\ joined = Len(threads)
    /\ lpc' = "report"
    /\ UNCHANGED fitVars
    /\ UNCHANGED <<scene_sets, target_anim_sets, anim_set_data, temp_file, processes,
                   proc, threads, tstate, joined, success, errors, printed, raised,
                   raiseCount>>

\* Line 135: the names joined into the message, one per entry of errors.
FailedPaths(errs) == [i \in DOMAIN errs |-> PathName(errs[i][2])]

\* Lines 128-132: what the two print loops write.
ReportLines(succ, errs) ==
    [i \in DOMAIN succ |-> <<"CreateAnim", succ[i][2]>>]
        \o [i \in DOMAIN errs |-> <<"stderr text", errs[i][1]>>]

\* Lines 128-136: print every success and every error text, then raise once
\* if errors is not empty.
Report ==
    /\ lpc = "report"
    /\ printed' = ReportLines(success, errors)
    /\ IF errors # <<>>
       THEN /\ raised' = <<[failed_paths |-> FailedPaths(errors)]>>
            /\ raiseCount' = raiseCount + 1
            /\ lpc' = "raised"
       ELSE /\ lpc' = "done"
            /\ UNCHANGED <<raised, raiseCount>>
    /\ UNCHANGED fitVars
    /\ UNCHANGED <<scene_sets, target_anim_sets, anim_set_data, temp_file, processes,
                   proc, threads, tstate, joined, success, errors>>

\* ========================================================================
\* Camera frame-fit (framefit.py)
\* ========================================================================

\* ------------------------------------------------------------------------
\* Numbers.  Python floats are modelled by exact rationals [n, d] in lowest
\* terms with d > 0; d = 0 is NaN, which every operation propagates.
\* ------------------------------------------------------------------------

Abs(i) == IF i < 0 THEN -i ELSE i

RECURSIVE GCD(_, _)
GCD(a, b) == IF b = 0 THEN a ELSE GCD(b, a % b)

NaN == [n |-> 0, d |-> 0]

IsNaN(a) == a.d = 0

RNorm(n, d) ==
    LET g == GCD(Abs(n), d)
    IN [n |-> n \div g, d |-> d \div g]

R(i) == [n |-> i, d |-> 1]

RAdd(a, b) == IF IsNaN(a) \/ IsNaN(b) THEN NaN ELSE RNorm(a.n * b.d + b.n * a.d, a.d * b.d)

RSub(a, b) == IF IsNaN(a) \/ IsNaN(b) THEN NaN ELSE RNorm(a.n * b.d - b.n * a.d, a.d * b.d)

RMul(a, b) == IF IsNaN(a) \/ IsNaN(b) THEN NaN ELSE RNorm(a.n * b.n, a.d * b.d)

\* a / k for an integer k > 0.
RDivInt(a, k) == IF IsNaN(a) THEN NaN ELSE RNorm(a.n, a.d * k)

RLt(a, b) == a.n * b.d < b.n * a.d

\* Python's min(a, b) and max(a, b): the first argument unless the second beats it.
PyMin(a, b) == IF RLt(b, a) THEN b ELSE a

PyMax(a, b) == IF RLt(a, b) THEN b ELSE a

\* Python's int(x) of a float: truncation toward zero.
PyInt(a) == IF a.n < 0 THEN R(-((-a.n) \div a.d)) ELSE R(a.n \div a.d)

\* numpy arrays of three floats.
Vec(x, y, z) == <<R(x), R(y), R(z)>>

NaN3 == <<NaN, NaN, NaN>>

VAdd(a, b) == [k \in 1 .. 3 |-> RAdd(a[k], b[k])]

VSub(a, b) == [k \in 1 .. 3 |-> RSub(a[k], b[k])]

VScale(a, r) == [k \in 1 .. 3 |-> RMul(a[k], r)]

RECURSIVE VSum(_)
VSum(vs) == IF vs = <<>> THEN Vec(0, 0, 0) ELSE VAdd(Head(vs), VSum(Tail(vs)))

\* numpy.mean(list, axis=0) (line 169).  The mean of an empty list is nan
\* (with a RuntimeWarning, not an exception); it broadcasts at line 179.
NumpyMean(vs) ==
    IF vs = <<>> THEN NaN3
    ELSE [k \in 1 .. 3 |-> RDivInt(VSum(vs)[k], Len(vs))]

\* ------------------------------------------------------------------------
\* The scene the host application holds
\* ------------------------------------------------------------------------

\* Transforms and joints of the scene, in the order cmds.ls lists them.
Objects == <<"a_anim", "b_control", "m_anim", "j_anim">>

\* cmds.listRelatives(control, shapes=True): a_anim carries two curves,
\* b_control a mesh and a curve, m_anim a mesh only, j_anim nothing.
ShapesOf(control) ==
    CASE control = "a_anim"    -> <<"a_animShape1", "a_animShape2">>
      [] control = "b_control" -> <<"b_controlMesh", "b_controlShape">>
      [] control = "m_anim"    -> <<"m_animMesh">>
      [] OTHER                 -> <<>>

\* om.MFnNurbsCurve(path) succeeds for these shapes and raises RuntimeError
\* for the others (lines 71-75).
IsCurve(shape) == shape \in {"a_animShape1", "a_animShape2", "b_controlShape"}

\* curve.getCVs(point_list, om.MSpace.kWorld) (line 78).
CVs(shape) ==
    CASE shape = "a_animShape1"   -> <<Vec(0, 2, 0), Vec(1, 1, 1)>>
      [] shape = "a_animShape2"   -> <<Vec(2, 0, 2)>>
      [] shape = "b_controlShape" -> <<Vec(4, 4, 6), Vec(6, 5, 4), Vec(5, 6, 5)>>
      [] OTHER                    -> <<>>

\* Nodes the user may have selected: the objects and one shape node.
Selectable == Range(Objects) \cup {"a_animShape1"}

\* cmds.ls(sl=True, type=['transform', 'joint']) (line 227).
IsTransformOrJoint(node) == node \in Range(Objects)

\* get_all_rig_controls (lines 29-35): every transform or joint named
\* '*_anim' or '*_control'.
get_all_rig_controls == Objects

\* Where cmds.viewFit (line 150) may leave the camera.
FitOutcomes ==
    { [pos |-> Vec(3, 3, -7), coi |-> R(10)],
      [pos |-> Vec(0, 0, 10), coi |-> RNorm(25, 2)] }

\* The camera before the tool runs.
InitialCamera == [pos |-> Vec(0, 0, 20), coi |-> R(5)]

\* Host calls that may raise in a run of the entry point.
Faults == {"none", "modelEditor", "ls_sl", "openChunk", "ls_targets", "viewFit",
           "xform", "closeChunk", "select_sel"}

\* Zoom fractions a caller may pass: below 0, 0, inside (0, 1), 1, above 1.
ZoomAmounts == {RNorm(k, 4) : k \in {-1, 0, 1, 2, 4, 5}}

\* First occurrences of s, in order (what a selection list keeps).
RECURSIVE Dedup(_)
Dedup(s) ==
    IF s = <<>> THEN <<>>
    ELSE <<Head(s)>> \o Dedup(Restrict(Tail(s), Range(Tail(s)) \ {Head(s)}))

\* Sequences over S of length at most n.
SeqsUpTo(S, n) == UNION {[1 .. k -> S] : k \in 0 .. n}

\* ------------------------------------------------------------------------
\* get_bounds_of_anim_control_shapes and get_centre_in_bounds
\* ------------------------------------------------------------------------

\* Lines 55-60: the initial bound volume.
Sentinel == 9999999

InitialBounds == <<R(Sentinel), R(Sentinel), R(Sentinel),
                   R(-Sentinel), R(-Sentinel), R(-Sentinel)>>

\* Lines 80-88: fold the points of one curve into [min_x .. max_z].
RECURSIVE ScanPoints(_, _)
ScanPoints(point_list, b) ==
    IF point_list = <<>> THEN b
    ELSE LET p == Head(point_list)
         IN ScanPoints(Tail(point_list),
                       <<PyMin(p[1], b[1]), PyMin(p[2], b[2]), PyMin(p[3], b[3]),
                         PyMax(p[1], b[4]), PyMax(p[2], b[5]), PyMax(p[3], b[6])>>)

\* Lines 68-88: every shape in turn; a shape that is no curve is skipped.
RECURSIVE ScanShapes(_, _)
ScanShapes(shs, b) ==
    IF shs = <<>> THEN b
    ELSE IF IsCurve(Head(shs))
         THEN ScanShapes(Tail(shs), ScanPoints(CVs(Head(shs)), b))
         ELSE ScanShapes(Tail(shs), b)

\* Lines 51-90, for a control that passes the assertion of line 52.
get_bounds_of_anim_control_shapes(control) == ScanShapes(ShapesOf(control), InitialBounds)

\* Faulty variant of get_centre_in_bounds: the half vector added to the wrong corner.
CentreFromMinCorner(b) ==
    LET min_bounds == <<b[1], b[2], b[3]>>
        max_bounds == <<b[4], b[5], b[6]>>
        vector == VSub(min_bounds, max_bounds)
    IN VAdd(min_bounds, VScale(vector, RNorm(1, 2)))

\* Lines 97-101.
get_centre_in_bounds(b) ==
    LET min_bounds == <<b[1], b[2], b[3]>>
        max_bounds == <<b[4], b[5], b[6]>>
        vector == VSub(min_bounds, max_bounds)
    IN VAdd(max_bounds, VScale(vector, RNorm(1, 2)))

\* ------------------------------------------------------------------------
\* framefit_animrig
\* ------------------------------------------------------------------------

RECURSIVE Flatten(_)
Flatten(ss) == IF ss = <<>> THEN <<>> ELSE Head(ss) \o Flatten(Tail(ss))

\* Lines 132-137: the targets that have a shape.
HasShape(i) == ShapesOf(i) # <<>>

CleanTargets(ts) == Restrict(ts, {i \in Range(ts) : HasShape(i)})

\* Line 158: set(targets).difference(set(invisible)), listed in a fixed order
\* (the mean of line 169 does not depend on the order).
Contributing(ts, invisible) == Restrict(Dedup(ts), Range(ts) \ invisible)

\* Lines 160-164: a control failing the assertion of line 52 is skipped.
Measured(cs) == Restrict(cs, {i \in Range(cs) : ShapesOf(i) # <<>>})

\* Line 183.
Delta(zoom) == PyMax(R(0), PyMin(zoom, R(1)))

\* Lines 179-184.
MoveToPos(cam, centre, zoom) == VAdd(cam, VScale(VSub(centre, cam), Delta(zoom)))

\* Line 190.
NewCentreOfInterest(old, zoom) == PyInt(RMul(old, RSub(R(1), Delta(zoom))))

\* framefit_animrig returns (e = "") or raises e: to its caller when called
\* directly, into the try statement of the entry point otherwise.
FrameLeaves(e) ==
    /\ exc' = e
    /\ pc' = IF caller = "direct" THEN "done"
             ELSE IF e = "" THEN "e_finally" ELSE "e_except"

\* Lines 130-145: drop the targets without shapes; return if none is left,
\* else select the collected shapes.
FilterTargets ==
    /\ pc = "f_filter"
    /\ LET targets_ == CleanTargets(targets)
           found == Flatten([k \in DOMAIN targets_ |-> ShapesOf(targets_[k])])
       IN IF targets_ = <<>>
          THEN /\ FrameLeaves("")
               /\ UNCHANGED <<targets, shapes, selection>>
          ELSE /\ targets' = targets_
               /\ shapes' = found
               /\ selection' = Dedup(found)
               /\ pc' = "f_viewfit"
               /\ UNCHANGED exc
    /\ UNCHANGED launcherVars
    /\ UNCHANGED <<caller, fault, camera_arg, target_camera, zoom_amount, hidden,
                   fit_outcome, camera_pos, coi, cam_writes, undo_depth, open_calls,
                   close_calls, sel, sel_at_entry, local_bounds, centre_pos, cam_read,
                   logged>>

\* Lines 150-152: the approximate auto-fit of the host moves the camera.
ViewFit ==
    /\ pc = "f_viewfit"
    /\ IF fault = "viewFit"
       THEN /\ FrameLeaves("RuntimeError")
            /\ UNCHANGED <<camera_pos, coi, cam_writes>>
       ELSE /\ camera_pos' = fit_outcome.pos
            /\ coi' = fit_outcome.coi
            /\ cam_writes' = cam_writes \cup {"viewFit"}
            /\ pc' = "f_centres"
            /\ UNCHANGED exc
    /\ UNCHANGED launcherVars
    /\ UNCHANGED <<caller, fault, camera_arg, target_camera, zoom_amount, targets,
                   hidden, fit_outcome, selection, undo_depth, open_calls, close_calls,
                   sel, sel_at_entry, shapes, local_bounds, centre_pos, cam_read,
                   logged>>

\* Lines 157-172: the bounds and centre of every visible target, and their
\* mean.  get_bounds_of_anim_control_shapes selects the shapes of the control
\* it measures (line 63), so the selection ends on those of the control the
\* set iteration visits last, which may be any of them.
CentrePoints ==
    /\ pc = "f_centres"
    /\ LET visited == Measured(Contributing(targets, hidden))
           bounds == [k \in DOMAIN visited |-> get_bounds_of_anim_control_shapes(visited[k])]
           centre_points == [k \in DOMAIN bounds |-> get_centre_in_bounds(bounds[k])]
       IN /\ local_bounds' = bounds
          /\ centre_pos' = NumpyMean(centre_points)
          /\ IF visited = <<>>
             THEN UNCHANGED selection
             ELSE \E last \in Range(visited) : selection' = ShapesOf(last)
    /\ pc' = "f_move"
    /\ UNCHANGED launcherVars
    /\ UNCHANGED <<caller, fault, camera_arg, target_camera, zoom_amount, targets,
                   hidden, fit_outcome, camera_pos, coi, cam_writes, undo_depth,
                   open_calls, close_calls, sel, sel_at_entry, shapes, cam_read,
                   logged, exc>>

\* Lines 174-190: nothing for a zoom of exactly 0; else move the camera along
\* the vector to the centre and scale its centerOfInterest.
MoveCamera ==
    /\ pc = "f_move"
    /\ IF zoom_amount = R(0)
       THEN /\ FrameLeaves("")
            /\ UNCHANGED <<cam_read, camera_pos, coi, cam_writes>>
       ELSE /\ cam_read' = camera_pos
            /\ IF fault = "xform"
               THEN /\ FrameLeaves("RuntimeError")
                    /\ UNCHANGED <<camera_pos, coi, cam_writes>>
               ELSE /\ camera_pos' = MoveToPos(camera_pos, centre_pos, zoom_amount)
                    /\ coi' = NewCentreOfInterest(coi, zoom_amount)
                    /\ cam_writes' = cam_writes \cup {"xform", "setAttr"}
                    /\ FrameLeaves("")
    /\ UNCHANGED launcherVars
    /\ UNCHANGED <<caller, fault, camera_arg, target_camera, zoom_amount, targets,
                   hidden, fit_outcome, selection, undo_depth, open_calls, close_calls,
                   sel, sel_at_entry, shapes, local_bounds, centre_pos, logged>>

\* ------------------------------------------------------------------------
\* framefit_animrig_current_panel_to_selected
\* ------------------------------------------------------------------------

\* Lines 206-216: the camera of the panel with focus, 'persp' if the query
\* raises RuntimeError.
QueryCamera ==
    /\ pc = "e_camera"
    /\ target_camera' = IF camera_arg # "" THEN camera_arg
                        ELSE IF fault = "modelEditor" THEN "persp" ELSE "panelCamera"
    /\ pc' = "e_sel"
    /\ UNCHANGED launcherVars
    /\ UNCHANGED <<caller, fault, camera_arg, zoom_amount, targets, hidden, fit_outcome,
                   selection, camera_pos, coi, cam_writes, undo_depth, open_calls,
                   close_calls, sel, sel_at_entry, shapes, local_bounds, centre_pos,
                   cam_read, logged, exc>>

\* Line 219: outside the try statement, so a failure leaves the function.
StoreSelection ==
    /\ pc = "e_sel"
    /\ IF fault = "ls_sl"
       THEN /\ exc' = "RuntimeError"
            /\ pc' = "done"
            /\ UNCHANGED sel
       ELSE /\ sel' = selection
            /\ pc' = "e_open"
            /\ UNCHANGED exc
    /\ UNCHANGED launcherVars
    /\ UNCHANGED <<caller, fault, camera_arg, target_camera, zoom_amount, targets,
                   hidden, fit_outcome, selection, camera_pos, coi, cam_writes,
                   undo_depth, open_calls, close_calls, sel_at_entry, shapes,
                   local_bounds, centre_pos, cam_read, logged>>

\* Line 222.
OpenChunk ==
    /\ pc = "e_open"
    /\ IF fault = "openChunk"
       THEN /\ exc' = "RuntimeError"
            /\ pc' = "e_except"
            /\ UNCHANGED <<undo_depth, open_calls>>
       ELSE /\ undo_depth' = undo_depth + 1
            /\ open_calls' = open_calls + 1
            /\ pc' = "e_call"
            /\ UNCHANGED exc
    /\ UNCHANGED launcherVars
    /\ UNCHANGED <<caller, fault, camera_arg, target_camera, zoom_amount, targets,
                   hidden, fit_outcome, selection, camera_pos, coi, cam_writes,
                   close_calls, sel, sel_at_entry, shapes, local_bounds, centre_pos,
                   cam_read, logged>>

\* Lines 224-229: the arguments of the call: the selected transforms and
\* joints, or every rig control if there is none; zoom_amount=0.25.
CallFramefit ==
    /\ pc = "e_call"
    /\ IF fault = "ls_targets"
       THEN /\ exc' = "RuntimeError"
            /\ pc' = "e_except"
            /\ UNCHANGED <<targets, zoom_amount>>
       ELSE /\ LET picked == Restrict(selection, {n \in Range(selection) : IsTransformOrJoint(n)})
               IN targets' = IF picked # <<>> THEN picked ELSE get_all_rig_controls
            /\ zoom_amount' = RNorm(1, 4)
            /\ pc' = "f_filter"
            /\ UNCHANGED exc
    /\ UNCHANGED launcherVars
    /\ UNCHANGED <<caller, fault, camera_arg, target_camera, hidden, fit_outcome,
                   selection, camera_pos, coi, cam_writes, undo_depth, open_calls,
                   close_calls, sel, sel_at_entry, shapes, local_bounds, centre_pos,
                   cam_read, logged>>

\* Lines 231-235: any Exception raised in the try body is printed and dropped.
SwallowException ==
    /\ pc = "e_except"
    /\ logged' = logged + 1
    /\ exc' = ""
    /\ pc' = "e_finally"
    /\ UNCHANGED launcherVars
    /\ UNCHANGED <<caller, fault, camera_arg, target_camera, zoom_amount, targets,
                   hidden, fit_outcome, selection, camera_pos, coi, cam_writes,
                   undo_depth, open_calls, close_calls, sel, sel_at_entry, shapes,
                   local_bounds, centre_pos, cam_read>>

\* Line 238, first statement of the finally block: a failure leaves the
\* function before line 241 runs.
CloseChunk ==
    /\ pc = "e_finally"
    /\ IF fault = "closeChunk"
       THEN /\ exc' = "RuntimeError"
            /\ pc' = "done"
            /\ UNCHANGED <<undo_depth, close_calls>>
       ELSE /\ undo_depth' = undo_depth - 1
            /\ close_calls' = close_calls + 1
            /\ pc' = "e_select"
            /\ UNCHANGED exc
    /\ UNCHANGED launcherVars
    /\ UNCHANGED <<caller, fault, camera_arg, target_camera, zoom_amount, targets,
                   hidden, fit_outcome, selection, camera_pos, coi, cam_writes,
                   open_calls, sel, sel_at_entry, shapes, local_bounds, centre_pos,
                   cam_read, logged>>

\* cmds.select(objects) with a list: maya.cmds rejects an empty list with a
\* TypeError and leaves the selection alone (clearing takes clear=True); the
\* lists of lines 63 and 145 are never empty, the one of line 241 may be.
SelectRejects(objects) == objects = <<>>

\* Line 241: reselect the stored selection.
RestoreSelection ==
    /\ pc = "e_select"
    /\ IF fault = "select_sel"
       THEN /\ exc' = "RuntimeError"
            /\ UNCHANGED selection
       ELSE IF SelectRejects(sel)
            THEN /\ exc' = "TypeError"
                 /\ UNCHANGED selection
            ELSE /\ selection' = sel
                 /\ UNCHANGED exc
    /\ pc' = "done"
    /\ UNCHANGED launcherVars
    /\ UNCHANGED <<caller, fault, camera_arg, target_camera, zoom_amount, targets,
                   hidden, fit_outcome, camera_pos, coi, cam_writes, undo_depth,
                   open_calls, close_calls, sel, sel_at_entry, shapes, local_bounds,
                   centre_pos, cam_read, logged>>

\* ========================================================================
\* Specifications
\* ========================================================================

\* The launcher before anim_rig_generator runs, mayapy.exe found (line 46).
LauncherStart ==
    /\ lpc = "discover"
    /\ anim_set_data = <<>>
    /\ processes = <<>>
    /\ proc = [p \in AnimSets |-> NoProc]
    /\ threads = <<>>
    /\ tstate = [p \in AnimSets |-> "unstarted"]
    /\ joined = 0
    /\ success = <<>>
    /\ errors = <<>>
    /\ printed = <<>>
    /\ raised = <<>>
    /\ raiseCount = 0

\* The locals of framefit.py before anything has run, the scene camera at rest.
FitStart ==
    /\ camera_pos = InitialCamera.pos
    /\ coi = InitialCamera.coi
    /\ cam_writes = {}
    /\ undo_depth = 0
    /\ open_calls = 0
    /\ close_calls = 0
    /\ sel = <<>>
    /\ shapes = <<>>
    /\ local_bounds = <<>>
    /\ centre_pos = <<>>
    /\ cam_read = <<>>
    /\ logged = 0
    /\ exc = ""

LauncherIdle ==
    /\ LauncherStart
    /\ scene_sets = <<>>
    /\ target_anim_sets = None
    /\ temp_file = "absent"

FitIdle ==
    /\ FitStart
    /\ caller = "direct"
    /\ fault = "none"
    /\ camera_arg = ""
    /\ target_camera = ""
    /\ zoom_amount = RNorm(1, 4)
    /\ targets = <<>>
    /\ hidden = {}
    /\ fit_outcome = InitialCamera
    /\ selection = <<>>
    /\ sel_at_entry = <<>>
    /\ pc = "idle"

LauncherInit ==
    /\ LauncherStart
    /\ scene_sets \in {Ordered(S) : S \in SUBSET AnimSets}
    /\ target_anim_sets \in
           {None} \cup {[given |-> TRUE, sets |-> S] : S \in SUBSET AnimSets}
    /\ temp_file \in {"absent", "stale"}
    /\ FitIdle

MainStep ==
    \/ Discover
    \/ Prepare
    \/ SpawnProcess
    \/ SpawnDone
    \/ StartThread
    \/ ThreadsStarted
    \/ Join
    \/ JoinDone
    \/ Report

WorkerExit == \E p \in AnimSets : ProcExit(p)

LauncherNext ==
    \/ Discover
    \/ Prepare
    \/ SpawnProcess
    \/ SpawnDone
    \/ WorkerExit
    \/ StartThread
    \/ ThreadsStarted
    \/ ThreadStep
    \/ Join
    \/ JoinDone
    \/ Report

LauncherSpec == LauncherInit /\ [][LauncherNext]_vars

\* The interpreter keeps scheduling the main flow and every started thread;
\* nothing obliges a worker process to exit.
LauncherFairSpec ==
    /\ LauncherSpec
    /\ WF_vars(MainStep)
    /\ WF_vars(ThreadStep)

\* Selections: duplicate-free lists of selectable nodes.
Selections == {s \in SeqsUpTo(Selectable, MaxTargets) : Dedup(s) = s}

\* A run of the user command (any one host call may raise), or a direct call
\* of framefit_animrig on a working host.
FitInit ==
    /\ FitStart
    /\ hidden \in SUBSET Range(Objects)
    /\ fit_outcome \in FitOutcomes
    /\ \/ /\ caller = "entry"
          /\ fault \in Faults
          /\ camera_arg \in {"", "shotCamera"}
          /\ target_camera = camera_arg
          /\ zoom_amount = RNorm(1, 4)
          /\ targets = <<>>
          /\ selection \in Selections
          /\ pc = "e_camera"
       \/ /\ caller = "direct"
          /\ fault = "none"
          /\ camera_arg = "shotCamera"
          /\ target_camera = camera_arg
          /\ zoom_amount \in ZoomAmounts
          /\ targets \in SeqsUpTo(Range(Objects), MaxTargets)
          /\ selection = <<>>
          /\ pc = "f_filter"
    /\ sel_at_entry = selection
    /\ LauncherIdle

FitNext ==
    \/ QueryCamera
    \/ StoreSelection
    \/ OpenChunk
    \/ CallFramefit
    \/ FilterTargets
    \/ ViewFit
    \/ CentrePoints
    \/ MoveCamera
    \/ SwallowException
    \/ CloseChunk
    \/ RestoreSelection

FitSpec == FitInit /\ [][FitNext]_vars

\* ========================================================================
\* Properties of the launcher
\* ========================================================================

Terminated == lpc \in {"done", "raised"}

Occurrences(s, x) == Cardinality({i \in DOMAIN s : s[i] = x})

\* Entries of a list of (text, target_path) pairs that carry path t.
WithPath(s, t) == {i \in DOMAIN s : s[i][2] = t}

FailedJobs == {j \in DOMAIN processes : proc[processes[j].proc].returncode # 0}

\* Each job is recorded exactly once: as ('Success', path) iff it exited
\* with 0, else as (its stderr, path); every success is printed.
RecordedOnce ==
    /\ Len(success) + Len(errors) = Len(processes)
    /\ \A j \in DOMAIN processes :
           LET p == processes[j].proc
               t == processes[j].target_path
           IN IF proc[p].returncode = 0
              THEN /\ Occurrences(success, <<"Success", t>>) = 1
                   /\ WithPath(errors, t) = {}
                   /\ Occurrences(printed, <<"CreateAnim", t>>) = 1
              ELSE /\ Occurrences(errors, <<StderrOf(p), t>>) = 1
                   /\ Cardinality(WithPath(errors, t)) = 1
                   /\ WithPath(success, t) = {}
                   /\ Occurrences(printed, <<"stderr text", StderrOf(p)>>) = 1

\* One failure is raised iff some job failed.
RaisedIffFailed == (raised # <<>>) <=> (FailedJobs # {})

\* What the raised failure lists, entry by entry.
NamedByFailure == IF raised = <<>> THEN <<>> ELSE raised[1].failed_paths

\* C1 as stated: once all threads are joined, each job is recorded exactly
\* once (success iff exit code 0, else a failure with its stderr and output
\* path), and one failure is raised iff a job failed, naming exactly the
\* output paths of the failed jobs.
C1_NamesOutputPaths ==
    Terminated =>
        /\ RecordedOnce
        /\ RaisedIffFailed
        /\ Len(NamedByFailure) = Cardinality(FailedJobs)
        /\ \A j \in FailedJobs :
               Occurrences(NamedByFailure, processes[j].target_path) = 1

\* C1 amended: as C1, but the raised failure names exactly the file names
\* (the last component) of the output paths of the failed jobs, one entry per
\* failed job.
C1_NamesFileNames ==
    Terminated =>
        /\ RecordedOnce
        /\ RaisedIffFailed
        /\ Len(NamedByFailure) = Cardinality(FailedJobs)
        /\ \A j \in FailedJobs :
               LET t == processes[j].target_path
               IN Occurrences(NamedByFailure, <<t[Len(t)]>>) = 1

\* Three jobs, only the second exits non-zero, and the failure has been raised.
C1_Witness ==
    /\ lpc = "raised"
    /\ Len(processes) = 3
    /\ FailedJobs = {2}
    /\ Len(success) = 2

\* C2: the failure is raised exactly once and only at the end (never unless
\* a job failed); nothing is printed or raised while a worker process is
\* still running; and the waiting on a worker is never cut short: a thread
\* finishes only after its process exited, and the main flow gets past the
\* joins only after every thread finished, whatever its siblings' exit codes.
C2_RaisesOnceAtEnd ==
    /\ raiseCount = IF Terminated /\ errors # <<>> THEN 1 ELSE 0
    /\ (raised # <<>>) <=> (lpc = "raised")
    /\ (printed # <<>> \/ raised # <<>>) =>
           /\ Terminated
           /\ \A p \in AnimSets : proc[p].state # "running"
    /\ \A p \in AnimSets : tstate[p] = "finished" => proc[p].state = "exited"
    /\ \A i \in DOMAIN threads : i <= joined => tstate[threads[i]._p] = "finished"
    /\ lpc \in {"report", "done", "raised"} =>
           /\ joined = Len(processes)
           /\ \A j \in DOMAIN processes : tstate[processes[j].proc] = "finished"

\* The failure has been raised after a batch in which one worker failed and
\* a sibling succeeded.
C2_Witness ==
    /\ lpc = "raised"
    /\ raiseCount = 1
    /\ Len(errors) >= 1
    /\ Len(success) >= 1

WorkersRunning == {p \in AnimSets : proc[p].state = "running"}

AllWorkersExited ==
    /\ lpc \notin {"discover", "prepare", "spawn"}
    /\ WorkersRunning = {}

\* C3: there is no timeout or cancellation.  While any worker is running the
\* main flow is not past the joins, however many siblings have exited; and
\* once every spawned worker has exited the main flow does get past the joins
\* and terminates, by returning or raising.
C3_NoTimeout ==
    /\ [](WorkersRunning # {} => lpc \notin {"report", "done", "raised"})
    /\ (AllWorkersExited ~> Terminated)

\* The main flow waits in the join loop on one worker that is still running
\* while every other worker has exited and been recorded.
C3_Witness ==
    /\ lpc = "join"
    /\ Cardinality(WorkersRunning) = 1
    /\ Len(success) + Len(errors) = Len(processes) - 1
    /\ Len(processes) >= 2

\* The sets the claim calls retained, for a given reading of "supplied".
Spawned == {p \in AnimSets : proc[p].state # "none"}

OnePerSet(retained) ==
    /\ Spawned \subseteq retained
    /\ Len(processes) = Cardinality(Spawned)
    /\ {processes[j].proc : j \in DOMAIN processes} = Spawned
    /\ {threads[i]._p : i \in DOMAIN threads} = {p \in AnimSets : tstate[p] # "unstarted"}
    /\ Len(threads) = Cardinality({p \in AnimSets : tstate[p] # "unstarted"})
    /\ lpc \notin {"discover", "prepare", "spawn"} => Spawned = retained
    /\ lpc \notin {"discover", "prepare", "spawn", "threads"} =>
           {threads[i]._p : i \in DOMAIN threads} = retained
    /\ scene_sets = <<>> => Spawned = {} /\ raised = <<>> /\ raiseCount = 0

\* C4 as stated: one process and one thread per retained set, the retained
\* sets being the discovered ones restricted to the caller's subset whenever
\* one is supplied (an argument other than None); with no discovered set, no
\* process and no failure.
C4_WheneverSupplied ==
    OnePerSet(IF target_anim_sets.given
              THEN Range(scene_sets) \cap target_anim_sets.sets
              ELSE Range(scene_sets))

\* C4 amended: as C4, but the restriction applies only when the supplied
\* subset is not empty; an empty list, like None, retains every discovered
\* set.
C4_WheneverNonEmpty ==
    OnePerSet(IF target_anim_sets.given /\ target_anim_sets.sets # {}
              THEN Range(scene_sets) \cap target_anim_sets.sets
              ELSE Range(scene_sets))

\* A batch over three discovered sets, cut down to two by the caller, has
\* run to its end.
C4_Witness ==
    /\ Terminated
    /\ Len(scene_sets) = 3
    /\ target_anim_sets.given
    /\ Len(processes) = 2
    /\ Len(threads) = 2

\* ========================================================================
\* Properties of the camera tool
\* ========================================================================

\* The user command has returned or raised to its caller.
EntryLeft == caller = "entry" /\ pc = "done"

\* A direct call of framefit_animrig has returned or raised to its caller.
FrameLeft == caller = "direct" /\ pc = "done"

\* C5: every invocation of the entry point closes the undo chunk it opened
\* exactly once and leaves the selection as it was at entry, whether
\* framefit_animrig returns normally, returns early or throws (the host's
\* undo and selection calls themselves in working order).
C5_UndoClosedSelectionRestored ==
    (EntryLeft /\ fault \in {"none", "viewFit", "xform"}) =>
        /\ open_calls = 1
        /\ close_calls = 1
        /\ undo_depth = 0
        /\ selection = sel_at_entry

\* C6: no exception leaves the entry point, whichever host call fails, and a
\* failed camera query falls back to 'persp'.
C6_NeverRaises ==
    caller = "entry" =>
        /\ pc = "done" => exc = ""
        /\ (pc # "e_camera" /\ camera_arg = "" /\ fault = "modelEditor") =>
               target_camera = "persp"

\* Every target is excluded: it has no shape, or it is hidden.
AllExcluded == \A i \in Range(targets) : ~HasShape(i) \/ i \in hidden

\* C7: if every target is excluded, framefit_animrig writes neither the
\* position nor the centerOfInterest of the camera, and no exception
\* propagates.
C7_AllExcludedNoOp ==
    (FrameLeft /\ AllExcluded) =>
        /\ cam_writes \cap {"xform", "setAttr"} = {}
        /\ exc = ""

\* (min + max) / 2 of an extent, axis by axis.
MidPoint(e) == [k \in 1 .. 3 |-> RDivInt(RAdd(e[k], e[k + 3]), 2)]

RECURSIVE SumOnAxis(_, _)
SumOnAxis(es, k) ==
    IF es = <<>> THEN R(0) ELSE RAdd(MidPoint(Head(es))[k], SumOnAxis(Tail(es), k))

\* The elementwise mean of the mid points of the extents es.
MeanOfMidPoints(es) == [k \in 1 .. 3 |-> RDivInt(SumOnAxis(es, k), Len(es))]

\* min(max(z, 0), 1).
Clamp(z) == IF RLt(z, R(0)) THEN R(0) ELSE IF RLt(R(1), z) THEN R(1) ELSE z

\* P + d * (C - P).
Towards(P, d, C) == [k \in 1 .. 3 |-> RAdd(P[k], RMul(d, RSub(C[k], P[k])))]

\* C8: for every zoom fraction z and every non-empty list of contributing
\* extents, the position written to the camera is P + d * (C - P), with P the
\* position read before the move, d = min(max(z, 0), 1) and C the elementwise
\* mean of the (min + max) / 2 of the extents; extents (0,0,0,2,2,2) and
\* (4,4,4,6,6,6) with the camera at (3,3,-7) and z = 0.5 give (3,3,-2).
C8_MovesTowardsMeanCentre ==
    ("xform" \in cam_writes /\ local_bounds # <<>>) =>
        /\ camera_pos = Towards(cam_read, Clamp(zoom_amount), MeanOfMidPoints(local_bounds))
        /\ ( /\ Range(local_bounds) = { <<R(0), R(0), R(0), R(2), R(2), R(2)>>,
                                        <<R(4), R(4), R(4), R(6), R(6), R(6)>> }
             /\ Len(local_bounds) = 2
             /\ cam_read = Vec(3, 3, -7)
             /\ zoom_amount = RNorm(1, 2) )
           => camera_pos = Vec(3, 3, -2)

\* The example of C8 has run: the two extents, the camera read at (3,3,-7),
\* z = 0.5, and the position written.
C8_Witness ==
    /\ "xform" \in cam_writes
    /\ Range(local_bounds) = { <<R(0), R(0), R(0), R(2), R(2), R(2)>>,
                               <<R(4), R(4), R(4), R(6), R(6), R(6)>> }
    /\ Len(local_bounds) = 2
    /\ cam_read = Vec(3, 3, -7)
    /\ zoom_amount = RNorm(1, 2)
    /\ camera_pos = Vec(3, 3, -2)

\* C9: from the same scene, a zoom fraction below 0 leaves the camera as a
\* fraction of 0 does, that is, position and centerOfInterest as the initial
\* auto-fit left them; and a fraction above 1 leaves it as a fraction of 1
\* does.  Stated for calls with at least one contributing extent.
C9_ClampedLikeBoundary ==
    (FrameLeft /\ exc = "" /\ local_bounds # <<>>) =>
        /\ (RLt(zoom_amount, R(0)) \/ zoom_amount = R(0)) =>
               /\ camera_pos = fit_outcome.pos
               /\ coi = fit_outcome.coi
        /\ RLt(R(1), zoom_amount) =>
               /\ camera_pos = MoveToPos(fit_outcome.pos, centre_pos, R(1))
               /\ coi = NewCentreOfInterest(fit_outcome.coi, R(1))

\* C10: every extent averaged into the centroid was built from at least one
\* sampled control point, so has min <= max on each axis; a target without
\* curve geometry contributes no extent.
C10_ExtentsFromSampledPoints ==
    \A i \in DOMAIN local_bounds :
        \A k \in 1 .. 3 : ~RLt(local_bounds[i][k + 3], local_bounds[i][k])

====
